---- MODULE Spec2Model ----
(***************************************************************************)
(* Model of src/src/api.rs: the RecipeType enum with its string            *)
(* conversions, and the Api client (get_apk_updates, get_recipe_ids,       *)
(* get_recipe, get_recipes) as a state machine of asynchronous calls.      *)
(*                                                                         *)
(* A Rust String is modelled as a sequence of symbols.  One symbol is one  *)
(* character, except for the fixed literals of the source (the base URL,   *)
(* DOWNLOAD_PATH, "versions.txt", the recipe path prefix, "ids", "all"),   *)
(* which are kept as one symbol each.  Option<T> is a record with a        *)
(* boolean field `some`.                                                   *)
(***************************************************************************)
EXTENDS Integers, Sequences, FiniteSets, TLC

(***************************************************************************)
(* Bounds of the model.                                                    *)
(***************************************************************************)
\* Longest response body of versions.txt, in characters.
MaxBodyLen == 4
\* Longest JSON array in a response body.
MaxIds == 2
\* Largest recipe id passed to get_recipe.
MaxId == 12
\* Longest string Url::join serialises, in symbols: the url crate keeps its
\* offsets in u32 and fails with ParseError::Overflow beyond u32::MAX bytes;
\* the limit is scaled down here so that a response line can exceed it.
MaxUrlLen == 5
\* Most characters appended to a channel word to form a parser input.
MaxPad == 1

Tasks == {"t1", "t2"}

None == [some |-> FALSE]
Some(x) == [some |-> TRUE, v |-> x]

RECURSIVE Concat(_)
\* The concatenation of a sequence of strings.
Concat(ss) == IF ss = <<>> THEN <<>> ELSE Head(ss) \o Concat(Tail(ss))

\* All strings over alphabet A of length at most n.
StringsUpTo(A, n) == UNION {[1..k -> A] : k \in 0..n}

(***************************************************************************)
(* RecipeType and its conversions (api.rs 8-39).                           *)
(***************************************************************************)
RecipeType == {"Default", "Live", "Beta"}

RecipeType_to_string_swapped(rt) ==
    CASE rt = "Default" -> <<"d", "e", "f", "a", "u", "l", "t">>
      [] rt = "Live"    -> <<"b", "e", "t", "a">>
      [] rt = "Beta"    -> <<"l", "i", "v", "e">>

\* impl ToString for RecipeType
RecipeType_to_string(rt) ==
    CASE rt = "Default" -> <<"d", "e", "f", "a", "u", "l", "t">>
      [] rt = "Live"    -> <<"l", "i", "v", "e">>
      [] rt = "Beta"    -> <<"b", "e", "t", "a">>

\* char::to_lowercase on the characters of the model: the ASCII capitals of
\* the channel words map to their small letters, U+0130 (capital I with dot
\* above, written "I." here) maps to the two characters "i" and U+0307
\* (written "."), every other character maps to itself.
char_to_lowercase(c) ==
    CASE c = "D" -> <<"d">> [] c = "E" -> <<"e">> [] c = "F" -> <<"f">>
      [] c = "A" -> <<"a">> [] c = "U" -> <<"u">> [] c = "L" -> <<"l">>
      [] c = "T" -> <<"t">> [] c = "I" -> <<"i">> [] c = "V" -> <<"v">>
      [] c = "B" -> <<"b">> [] c = "I." -> <<"i", ".">>
      [] OTHER -> <<c>>

\* str::to_lowercase
to_lowercase(s) == Concat([i \in 1..Len(s) |-> char_to_lowercase(s[i])])

Ok(x) == [kind |-> "Ok", value |-> x]
Err(e) == [kind |-> e, value |-> <<>>]

from_str_case_sensitive(s) ==
    CASE s = <<"d", "e", "f", "a", "u", "l", "t">> -> Ok("Default")
      [] s = <<"l", "i", "v", "e">> -> Ok("Live")
      [] s = <<"b", "e", "t", "a">> -> Ok("Beta")
      [] OTHER -> Err("InvalidChannelString")

\* impl FromStr for RecipeType
from_str(s) ==
    LET l == to_lowercase(s)
    IN  CASE l = <<"d", "e", "f", "a", "u", "l", "t">> -> Ok("Default")
          [] l = <<"l", "i", "v", "e">> -> Ok("Live")
          [] l = <<"b", "e", "t", "a">> -> Ok("Beta")
          [] OTHER -> Err("InvalidChannelString")

(***************************************************************************)
(* Text helpers of the standard library used by get_apk_updates.           *)
(* "LF" is the newline character and "SP" the space.                       *)
(***************************************************************************)
is_whitespace(c) == c \in {"SP", "LF"}

RECURSIVE trim_end(_)
\* str::trim_end: the string without its trailing whitespace.
trim_end(s) ==
    IF s = <<>> \/ ~is_whitespace(s[Len(s)])
    THEN s
    ELSE trim_end(SubSeq(s, 1, Len(s) - 1))

RECURSIVE split(_, _)
\* str::split(sep).collect(): the pieces between the separators; one piece
\* (possibly empty) for a string without separator.
split(s, sep) ==
    IF \A i \in 1..Len(s) : s[i] # sep
    THEN <<s>>
    ELSE LET i == CHOOSE k \in 1..Len(s) :
                      s[k] = sep /\ \A j \in 1..(k - 1) : s[j] # sep
         IN  <<SubSeq(s, 1, i - 1)>> \o split(SubSeq(s, i + 1, Len(s)), sep)

(***************************************************************************)
(* URL construction (api.rs 62-70).                                        *)
(***************************************************************************)
BASE == "https://mc20.monsieur-cuisine.com"
DOWNLOAD_PATH == "/666a60bc-0ce2-4878-9e3b-23ba3ceaba5a"
RECIPE_PATH == "/mcc/api/v1/recipe/"

\* What the URL parser does to its input before parsing: newlines are
\* removed and trailing spaces are trimmed (the paths of this module never
\* start with a space).
url_input(path) ==
    LET kept == SelectSeq(path, LAMBDA c : c # "LF")
    IN  trim_end(kept)

\* The parser's serialisation of a path: a space is percent-encoded.
url_encode_path(path) == [i \in 1..Len(path) |-> IF path[i] = "SP" THEN "%20" ELSE path[i]]

\* Api::create_url: base.join(path), an error when the joined URL is longer
\* than the parser can hold.
create_url(path) ==
    LET url == <<BASE>> \o url_encode_path(url_input(path))
    IN  IF Len(url) > MaxUrlLen THEN Err("UrlError") ELSE Ok(url)

\* format!("{}/{}", Api::DOWNLOAD_PATH, x)
download_path_of(x) == <<DOWNLOAD_PATH, "/">> \o x

\* format!("/mcc/api/v1/recipe/{}", endpoint)
recipe_path_of(endpoint) == <<RECIPE_PATH>> \o endpoint

RECURSIVE u32_to_string(_)
\* u32::to_string: the decimal digits of n.
u32_to_string(n) ==
    LET digit(d) == <<"0", "1", "2", "3", "4", "5", "6", "7", "8", "9">>[d + 1]
    IN  IF n < 10 THEN <<digit(n)>>
        ELSE u32_to_string(n \div 10) \o <<digit(n % 10)>>

(***************************************************************************)
(* get_apk_updates, after the body has arrived (api.rs 83-94).             *)
(***************************************************************************)
\* The body's lines: result.trim_end().split('\n')
apk_lines(text) == split(trim_end(text), "LF")

\* The closure mapped over the lines; `expect` panics on an Err.  The
\* outcome is Ok(urls) or a panic of the calling task.
apk_urls(text) ==
    LET lines == apk_lines(text)
        urls == [i \in 1..Len(lines) |-> create_url(download_path_of(lines[i]))]
    IN  IF \E i \in 1..Len(lines) : urls[i].kind # "Ok"
        THEN [kind |-> "Panic", value |-> <<>>]
        ELSE Ok([i \in 1..Len(lines) |-> urls[i].value])

(***************************************************************************)
(* Parameter defaulting and the request of get_recipe_endpoint             *)
(* (api.rs 101-123).                                                       *)
(***************************************************************************)
resolve_recipe_type_ignoring_argument(recipe_type) == RecipeType_to_string("Default")

\* recipe_type.or(Some(RecipeType::Default)).unwrap().to_string()
resolve_recipe_type(recipe_type) ==
    RecipeType_to_string(IF recipe_type.some THEN recipe_type.v ELSE "Default")

resolve_language_default_first(language, default_language) == default_language

\* language.or(Some(&self.default_language)).unwrap()
resolve_language(language, default_language) ==
    IF language.some THEN language.v ELSE default_language

ACCEPT_LANGUAGE == "accept-language"
X_RECIPE_TYPE == "X-Recipe-Type"

NoRequest == [method |-> "none", url |-> <<>>, headers |-> <<>>]

recipe_headers_language_only(language, recipe_type) == <<<<ACCEPT_LANGUAGE, language>>>>

\* .header(ACCEPT_LANGUAGE, language).header("X-Recipe-Type", recipe_type):
\* each call appends one header to the request.
recipe_headers(language, recipe_type) ==
    <<<<ACCEPT_LANGUAGE, language>>, <<X_RECIPE_TYPE, recipe_type>>>>

\* self.session.get(url) with the headers given
get_request(url, headers) == [method |-> "GET", url |-> url, headers |-> headers]

(***************************************************************************)
(* Response bodies as JSON documents, and their decoding into              *)
(* schemas::RecipeIds, schemas::Recipe and Vec<schemas::Recipe>.           *)
(* A number is kept as sign, high and low 16-bit halves, so that values    *)
(* beyond u32 are representable: its value is hi * 2^16 + lo.              *)
(***************************************************************************)
JInvalid == [t |-> "invalid"]
JStr == [t |-> "str"]
JNum(neg, hi, lo) == [t |-> "num", neg |-> neg, hi |-> hi, lo |-> lo]
JArr(items) == [t |-> "arr", items |-> items]
\* An object with an optional field "ids" and an optional field "data",
\* itself an object whose field "id" has the value given.
JObj(ids, data_id) == [t |-> "obj", ids |-> ids, data_id |-> data_id]

is_u32(j) == j.t = "num" /\ ~j.neg /\ j.hi < 2^16 /\ j.lo < 2^16

\* The u32 a JSON number decodes to.
as_u32(j) == [hi |-> j.hi, lo |-> j.lo]

\* RecipeIds { ids: Vec<u32> }
decode_RecipeIds(j) ==
    IF /\ j.t = "obj"
       /\ j.ids.some
       /\ j.ids.v.t = "arr"
       /\ \A i \in 1..Len(j.ids.v.items) : is_u32(j.ids.v.items[i])
    THEN Ok([ids |-> [i \in 1..Len(j.ids.v.items) |-> as_u32(j.ids.v.items[i])]])
    ELSE Err("DecodeError")

\* Recipe { data: { id: u32, .. }, .. }
decode_Recipe(j) ==
    IF j.t = "obj" /\ j.data_id.some /\ is_u32(j.data_id.v)
    THEN Ok([data |-> [id |-> as_u32(j.data_id.v)]])
    ELSE Err("DecodeError")

\* Vec<Recipe>
decode_Recipes(j) ==
    IF j.t = "arr" /\ \A i \in 1..Len(j.items) : decode_Recipe(j.items[i]).kind = "Ok"
    THEN Ok([i \in 1..Len(j.items) |-> decode_Recipe(j.items[i]).value])
    ELSE Err("DecodeError")

get_recipe_ids_result_reversed(j) ==
    LET d == decode_RecipeIds(j)
    IN  IF d.kind = "Ok"
        THEN Ok([i \in 1..Len(d.value.ids) |-> d.value.ids[Len(d.value.ids) + 1 - i]])
        ELSE d

\* get_recipe_ids after the body has arrived: .json::<RecipeIds>().await?
\* and Ok(result.ids)
get_recipe_ids_result(j) ==
    LET d == decode_RecipeIds(j)
    IN  IF d.kind = "Ok" THEN Ok(d.value.ids) ELSE d

\* get_recipe after the body has arrived
get_recipe_result(j) == decode_Recipe(j)

\* get_recipes after the body has arrived
get_recipes_result(j) == decode_Recipes(j)

(***************************************************************************)
(* Inputs.                                                                 *)
(***************************************************************************)
\* Language tags: ISO 639-1 codes, as Api::new documents (two are enough to
\* tell the default from an override).
Languages == {<<"d", "e">>, <<"f", "r">>}
LanguageArgs == {None} \cup {Some(l) : l \in Languages}
RecipeTypeArgs == {None} \cup {Some(r) : r \in RecipeType}
RecipeIdArgs == {0, 7, MaxId}

\* Bodies of versions.txt: letters, spaces and newlines.
BodyChars == {"a", "b", "SP", "LF"}
TextBodies == StringsUpTo(BodyChars, MaxBodyLen)

\* -1, 1, u32::MAX, u32::MAX + 1
JNums == {JNum(TRUE, 0, 1), JNum(FALSE, 0, 1), JNum(FALSE, 2^16 - 1, 2^16 - 1),
          JNum(FALSE, 2^16, 0)}
JScalars == JNums \cup {JStr}
JRecipes == {JObj(None, Some(JNum(FALSE, 0, 7)))}
JArrays == {JArr(s) : s \in StringsUpTo(JScalars \cup JRecipes, MaxIds)}
JScalarArrays == {JArr(s) : s \in StringsUpTo(JScalars, MaxIds)}
JObjects == {JObj(i, d) : i \in {None} \cup {Some(x) : x \in JScalars \cup JScalarArrays},
                          d \in {None, Some(JNum(FALSE, 0, 7))}}
JsonBodies == {JInvalid} \cup JScalars \cup JArrays \cup JObjects

\* The smaller input sets of the concurrent specification.
ConcIdArgs == {7}
ConcTextBodies == {<<>>, <<"a", "LF", "b", "LF">>}
TextBody(text) == [t |-> "text", text |-> text]
ConcJsonBodies == {JInvalid, JObj(Some(JArr(<<JNum(FALSE, 0, 1), JNum(FALSE, 0, 2)>>)), None)}

(***************************************************************************)
(* State.                                                                  *)
(***************************************************************************)
VARIABLES
    default_language,  \* Api.default_language
    pc,                \* per task: idle, sending, reading, done, panicked
    call,              \* per task: the operation called and its arguments
    request,           \* per task: the request the call has issued
    sent,              \* per task: requests issued by the current call
    decodes,           \* per task: bodies the current call has tried to decode
    body,              \* per task: the body the current call has received
    result,            \* per task: what the call returned
    channel_in,        \* the string last given to RecipeType::from_str
    channel_parsed,    \* what from_str returned for it
    channel_shown,     \* to_string of the parsed channel
    channel_origin     \* the channel the string was made from, if any

vars == <<default_language, pc, call, request, sent, decodes, body, result,
          channel_in, channel_parsed, channel_shown, channel_origin>>

client_vars == <<default_language, pc, call, request, sent, decodes, body, result>>
channel_vars == <<channel_in, channel_parsed, channel_shown, channel_origin>>

NoCall == [op |-> "none", id |-> 0, language |-> None, recipe_type |-> None]
NoBody == [t |-> "none"]
NoResult == [kind |-> "none", value |-> <<>>]

\* Api::new(language): the language is stored verbatim; no call is running.
Init ==
    /\ default_language \in Languages
    /\ pc = [t \in Tasks |-> "idle"]
    /\ call = [t \in Tasks |-> NoCall]
    /\ request = [t \in Tasks |-> NoRequest]
    /\ sent = [t \in Tasks |-> 0]
    /\ decodes = [t \in Tasks |-> 0]
    /\ body = [t \in Tasks |-> NoBody]
    /\ result = [t \in Tasks |-> NoResult]
    /\ channel_in = <<>>
    /\ channel_parsed = NoResult
    /\ channel_shown = <<>>
    /\ channel_origin = None

(***************************************************************************)
(* The client's operations.  An async fn runs up to its next .await in one  *)
(* step: the call up to send().await, then the arrival of the response,    *)
(* then the arrival of the body (text().await or json().await) and the     *)
(* rest of the function.                                                   *)
(***************************************************************************)
api_after_call_sticky(language, current) == IF language.some THEN language.v ELSE current

\* Every operation takes &self: the client's fields are what they were.
api_after_call(language, current) == current

\* A call that has built its URL: `?` returns the error, otherwise the
\* request is sent and the call waits for the response.
Issue(t, c, url, headers) ==
    /\ call' = [call EXCEPT ![t] = c]
    /\ IF url.kind # "Ok"
       THEN /\ pc' = [pc EXCEPT ![t] = "done"]
            /\ result' = [result EXCEPT ![t] = url]
            /\ UNCHANGED <<request, sent>>
       ELSE /\ pc' = [pc EXCEPT ![t] = "sending"]
            /\ request' = [request EXCEPT ![t] = get_request(url.value, headers)]
            /\ sent' = [sent EXCEPT ![t] = sent[t] + 1]
            /\ UNCHANGED result
    /\ default_language' = api_after_call(c.language, default_language)
    /\ UNCHANGED <<decodes, body, channel_vars>>

\* Api::get_apk_updates up to send().await
get_apk_updates(t) ==
    /\ pc[t] = "idle"
    /\ Issue(t, [op |-> "get_apk_updates", id |-> 0, language |-> None,
                 recipe_type |-> None],
             create_url(download_path_of(<<"versions.txt">>)), <<>>)

\* Api::get_recipe_endpoint up to send().await, for the operation c
get_recipe_endpoint(t, c, endpoint) ==
    LET recipe_type == resolve_recipe_type(c.recipe_type)
        language == resolve_language(c.language, default_language)
    IN  Issue(t, c, create_url(recipe_path_of(endpoint)),
              recipe_headers(language, recipe_type))

\* Api::get_recipe_ids up to send().await
get_recipe_ids(t, language, recipe_type) ==
    /\ pc[t] = "idle"
    /\ get_recipe_endpoint(t, [op |-> "get_recipe_ids", id |-> 0, language |-> language,
                               recipe_type |-> recipe_type], <<"ids">>)

\* Api::get_recipe up to send().await
get_recipe(t, recipe_id, language, recipe_type) ==
    /\ pc[t] = "idle"
    /\ get_recipe_endpoint(t, [op |-> "get_recipe", id |-> recipe_id,
                               language |-> language, recipe_type |-> recipe_type],
                           u32_to_string(recipe_id))

\* Api::get_recipes up to send().await
get_recipes(t, language, recipe_type) ==
    /\ pc[t] = "idle"
    /\ get_recipe_endpoint(t, [op |-> "get_recipes", id |-> 0, language |-> language,
                               recipe_type |-> recipe_type], <<"all">>)

\* The call ends with the value r.
Finish(t, r) ==
    /\ pc' = [pc EXCEPT ![t] = IF r.kind = "Panic" THEN "panicked" ELSE "done"]
    /\ result' = [result EXCEPT ![t] = r]
    /\ UNCHANGED <<default_language, call, request, sent, channel_vars>>

SendFails_retrying(t) ==
    /\ pc[t] = "sending"
    /\ sent[t] < 3
    /\ sent' = [sent EXCEPT ![t] = sent[t] + 1]
    /\ UNCHANGED <<default_language, pc, call, request, decodes, body, result,
                   channel_vars>>

\* send().await returns an error (connection, timeout, ...): `?` returns it.
SendFails(t) ==
    /\ pc[t] = "sending"
    /\ Finish(t, Err("NetworkError"))
    /\ UNCHANGED <<decodes, body>>

\* send().await returns the response (status and headers).
ResponseArrives(t) ==
    /\ pc[t] = "sending"
    /\ pc' = [pc EXCEPT ![t] = "reading"]
    /\ UNCHANGED <<default_language, call, request, sent, decodes, body, result,
                   channel_vars>>

\* text().await or json().await fails while the body is read.
BodyFails(t) ==
    /\ pc[t] = "reading"
    /\ Finish(t, Err("NetworkError"))
    /\ UNCHANGED <<decodes, body>>

\* get_apk_updates: text().await returns the body; the URLs are built.
TextArrives(t, text) ==
    /\ pc[t] = "reading"
    /\ call[t].op = "get_apk_updates"
    /\ body' = [body EXCEPT ![t] = TextBody(text)]
    /\ decodes' = [decodes EXCEPT ![t] = decodes[t] + 1]
    /\ Finish(t, apk_urls(text))

\* A recipe operation: json().await has the whole body and decodes it.
JsonArrives(t, j) ==
    /\ pc[t] = "reading"
    /\ call[t].op \in {"get_recipe_ids", "get_recipe", "get_recipes"}
    /\ body' = [body EXCEPT ![t] = j]
    /\ decodes' = [decodes EXCEPT ![t] = decodes[t] + 1]
    /\ Finish(t, CASE call[t].op = "get_recipe_ids" -> get_recipe_ids_result(j)
                   [] call[t].op = "get_recipe" -> get_recipe_result(j)
                   [] call[t].op = "get_recipes" -> get_recipes_result(j))

\* The caller has the result; the task is free for its next call.
Return(t) ==
    /\ pc[t] = "done"
    /\ pc' = [pc EXCEPT ![t] = "idle"]
    /\ call' = [call EXCEPT ![t] = NoCall]
    /\ request' = [request EXCEPT ![t] = NoRequest]
    /\ sent' = [sent EXCEPT ![t] = 0]
    /\ decodes' = [decodes EXCEPT ![t] = 0]
    /\ body' = [body EXCEPT ![t] = NoBody]
    /\ result' = [result EXCEPT ![t] = NoResult]
    /\ UNCHANGED <<default_language, channel_vars>>

\* One step of task t, its inputs drawn from the sets given.
Step(t, ids, texts, jsons) ==
    \/ get_apk_updates(t)
    \/ \E l \in LanguageArgs, r \in RecipeTypeArgs : get_recipe_ids(t, l, r)
    \/ \E i \in ids, l \in LanguageArgs, r \in RecipeTypeArgs : get_recipe(t, i, l, r)
    \/ \E l \in LanguageArgs, r \in RecipeTypeArgs : get_recipes(t, l, r)
    \/ SendFails(t)
    \/ ResponseArrives(t)
    \/ BodyFails(t)
    \/ \E text \in texts : TextArrives(t, text)
    \/ \E j \in jsons : JsonArrives(t, j)
    \/ Return(t)

\* One caller, one call after the other.
Next == Step("t1", RecipeIdArgs, TextBodies, JsonBodies)

Spec == Init /\ [][Next]_vars

\* Several tasks sharing the client, their calls interleaved.
NextConc == \E t \in Tasks : Step(t, ConcIdArgs, ConcTextBodies, ConcJsonBodies)

SpecConc == Init /\ [][NextConc]_vars

(***************************************************************************)
(* Callers of the RecipeType conversions.                                  *)
(***************************************************************************)
\* The capital of a small letter of the channel words.
upper(c) ==
    CASE c = "d" -> "D" [] c = "e" -> "E" [] c = "f" -> "F" [] c = "a" -> "A"
      [] c = "u" -> "U" [] c = "l" -> "L" [] c = "t" -> "T" [] c = "i" -> "I"
      [] c = "v" -> "V" [] c = "b" -> "B"

\* The characters a case-insensitive reader may take for c.
case_forms(c) == {c, upper(c)} \cup (IF c = "i" THEN {"I."} ELSE {})

RECURSIVE case_variants(_)
\* Every spelling of w in small and capital letters.
case_variants(w) ==
    IF w = <<>> THEN {<<>>}
    ELSE {<<c>> \o r : c \in case_forms(Head(w)), r \in case_variants(Tail(w))}

ChannelWords == {RecipeType_to_string(r) : r \in RecipeType}

\* Parser inputs: the spellings of the channel words and of their prefixes,
\* each with up to MaxPad other characters before and after.
ChannelInputs ==
    LET stems == UNION {case_variants(w) : w \in ChannelWords}
                 \cup UNION {{SubSeq(w, 1, k) : k \in 0..Len(w)} : w \in ChannelWords}
        pads == StringsUpTo({"x", "SP"}, MaxPad)
    IN  {p \o m \o q : p \in pads, m \in stems, q \in pads}

\* s.parse::<RecipeType>(), and to_string() of the channel parsed
ParseChannel(s, origin) ==
    /\ channel_in' = s
    /\ channel_origin' = origin
    /\ channel_parsed' = from_str(s)
    /\ channel_shown' = IF from_str(s).kind = "Ok"
                        THEN RecipeType_to_string(from_str(s).value)
                        ELSE <<>>
    /\ UNCHANGED client_vars

\* A string from outside is parsed.
ParseInput ==
    /\ channel_parsed.kind = "none"
    /\ \E s \in ChannelInputs : ParseChannel(s, None)

\* A channel is written with to_string() and read back.
ShowAndParse ==
    /\ channel_parsed.kind = "none"
    /\ \E r \in RecipeType : ParseChannel(RecipeType_to_string(r), Some(r))

\* The caller drops the values and goes on to its next string.
Forget ==
    /\ channel_parsed.kind # "none"
    /\ channel_in' = <<>>
    /\ channel_origin' = None
    /\ channel_parsed' = NoResult
    /\ channel_shown' = <<>>
    /\ UNCHANGED client_vars

NextChannel == ParseInput \/ ShowAndParse \/ Forget

SpecChannel == Init /\ [][NextChannel]_vars

(***************************************************************************)
(* Properties.                                                             *)
(***************************************************************************)
RecipeOps == {"get_recipe_ids", "get_recipe", "get_recipes"}

\* The values of the headers named n that request r carries, in order.
header_values(r, n) ==
    LET hs == SelectSeq(r.headers, LAMBDA h : h[1] = n)
    IN  [i \in 1..Len(hs) |-> hs[i][2]]

\* Task t has issued the request of its current call.
Issued(t) == request[t].method = "GET"

\* C1: the request of a recipe operation carries Accept-Language = the
\* language argument when one is given, and the client's default language
\* when none is given.
C1_AcceptLanguage ==
    \A t \in Tasks :
        (Issued(t) /\ call[t].op \in RecipeOps) =>
            /\ Len(header_values(request[t], ACCEPT_LANGUAGE)) > 0
            /\ \A i \in 1..Len(header_values(request[t], ACCEPT_LANGUAGE)) :
                   header_values(request[t], ACCEPT_LANGUAGE)[i] =
                       (IF call[t].language.some THEN call[t].language.v
                        ELSE default_language)

\* A recipe request whose language argument differs from the default.
C1_Witness ==
    \E t \in Tasks :
        /\ Issued(t) /\ call[t].op \in RecipeOps
        /\ call[t].language.some /\ call[t].language.v # default_language

\* C2: the request of a recipe operation carries X-Recipe-Type = "default"
\* when no channel is passed, and the lowercase name of the channel passed
\* otherwise.
C2_RecipeTypeHeader ==
    \A t \in Tasks :
        (Issued(t) /\ call[t].op \in RecipeOps) =>
            LET values == header_values(request[t], X_RECIPE_TYPE)
                rt == call[t].recipe_type
            IN  /\ Len(values) > 0
                /\ \A i \in 1..Len(values) :
                       /\ ~rt.some => values[i] = <<"d", "e", "f", "a", "u", "l", "t">>
                       /\ (rt.some /\ rt.v = "Default") =>
                              values[i] = <<"d", "e", "f", "a", "u", "l", "t">>
                       /\ (rt.some /\ rt.v = "Live") => values[i] = <<"l", "i", "v", "e">>
                       /\ (rt.some /\ rt.v = "Beta") => values[i] = <<"b", "e", "t", "a">>

\* A recipe request for the beta channel.
C2_Witness ==
    \E t \in Tasks :
        /\ Issued(t) /\ call[t].op \in RecipeOps
        /\ call[t].recipe_type.some /\ call[t].recipe_type.v = "Beta"

\* Request r carries exactly one language value and exactly one channel
\* value, those resolved from the arguments of call c.
OneLanguageOneChannel(r, c) ==
    /\ header_values(r, ACCEPT_LANGUAGE) =
           <<IF c.language.some THEN c.language.v ELSE default_language>>
    /\ header_values(r, X_RECIPE_TYPE) =
           <<RecipeType_to_string(IF c.recipe_type.some THEN c.recipe_type.v
                                  ELSE "Default")>>

\* C3 as stated: every request of every operation, get_apk_updates
\* included, carries exactly one language value and exactly one channel
\* value, each the argument if given and else the default.
C3_EveryRequest ==
    \A t \in Tasks : Issued(t) => OneLanguageOneChannel(request[t], call[t])

\* C3 amended: every request of a recipe operation carries exactly one
\* language value and exactly one channel value, each the argument if given
\* and else the default; a request of get_apk_updates carries neither.
C3_RecipeRequests ==
    \A t \in Tasks :
        Issued(t) =>
            IF call[t].op \in RecipeOps
            THEN OneLanguageOneChannel(request[t], call[t])
            ELSE /\ header_values(request[t], ACCEPT_LANGUAGE) = <<>>
                 /\ header_values(request[t], X_RECIPE_TYPE) = <<>>

\* A recipe request made with neither argument: both values are the
\* defaults.
C3_Witness ==
    \E t \in Tasks :
        /\ Issued(t) /\ call[t].op \in RecipeOps
        /\ ~call[t].language.some /\ ~call[t].recipe_type.some

\* C4: from_str succeeds exactly when the lowercased string is "default",
\* "live" or "beta"; then to_string of the parsed channel is the lowercased
\* string; every other string gives the invalid-channel error; and a
\* channel written with to_string parses back to itself.
C4_ChannelRoundTrip ==
    channel_parsed.kind # "none" =>
        /\ channel_parsed.kind = "Ok" <=>
               to_lowercase(channel_in) \in
                   {<<"d", "e", "f", "a", "u", "l", "t">>, <<"l", "i", "v", "e">>,
                    <<"b", "e", "t", "a">>}
        /\ channel_parsed.kind = "Ok" => channel_shown = to_lowercase(channel_in)
        /\ channel_parsed.kind # "Ok" => channel_parsed.kind = "InvalidChannelString"
        /\ channel_origin.some =>
               channel_parsed.kind = "Ok" /\ channel_parsed.value = channel_origin.v

\* A string with capital letters has been parsed to a channel.
C4_Witness ==
    /\ channel_parsed.kind = "Ok"
    /\ channel_in # to_lowercase(channel_in)
    /\ channel_shown = <<"l", "i", "v", "e">>

\* The text is n >= 0 file names, each of letters only and followed by a
\* newline.
IsFileList(text) ==
    \/ text = <<>>
    \/ /\ text[Len(text)] = "LF"
       /\ LET names == split(SubSeq(text, 1, Len(text) - 1), "LF")
          IN  \A i \in 1..Len(names) :
                  /\ names[i] # <<>>
                  /\ \A k \in 1..Len(names[i]) : names[i][k] \in {"a", "b"}

\* The file names of such a text, in order.
FileNames(text) ==
    IF text = <<>> THEN <<>> ELSE split(SubSeq(text, 1, Len(text) - 1), "LF")

\* Task t runs get_apk_updates and the body of the response has arrived.
ApkBodyArrived(t) == call[t].op = "get_apk_updates" /\ body[t].t = "text"

\* C5: for a body that lists n file names, each followed by a newline,
\* get_apk_updates returns exactly n URLs, the i-th being
\* <base>/<download-path>/<i-th file name>.
C5_OneUrlPerFileName ==
    \A t \in Tasks :
        (ApkBodyArrived(t) /\ IsFileList(body[t].text)) =>
            LET names == FileNames(body[t].text)
            IN  /\ result[t].kind = "Ok"
                /\ Len(result[t].value) = Len(names)
                /\ \A i \in 1..Len(names) :
                       result[t].value[i] = <<BASE, DOWNLOAD_PATH, "/">> \o names[i]

\* C6: get_apk_updates ends by returning an error value, UrlError when a
\* line of the body cannot be joined into a URL and NetworkError when the
\* transport fails; it ends in no other way.
C6_ErrorsAreReturned ==
    \A t \in Tasks :
        call[t].op = "get_apk_updates" =>
            /\ pc[t] # "panicked"
            /\ (/\ body[t].t = "text"
                /\ \E i \in 1..Len(apk_lines(body[t].text)) :
                       create_url(download_path_of(apk_lines(body[t].text)[i])).kind # "Ok")
               => (pc[t] = "done" /\ result[t].kind = "UrlError")
            /\ (pc[t] = "done" /\ body[t].t = "none" /\ sent[t] = 1)
               => result[t].kind = "NetworkError"

HasIdsOfU32(j) ==
    /\ j.t = "obj"
    /\ j.ids.some
    /\ j.ids.v.t = "arr"
    /\ \A i \in 1..Len(j.ids.v.items) :
           /\ j.ids.v.items[i].t = "num"
           /\ ~j.ids.v.items[i].neg
           /\ j.ids.v.items[i].hi <= 65535

\* C8: once the body has arrived, get_recipe_ids returns the numbers of the
\* body's "ids" array, same elements in the same order, if the body is an
\* object with such an array of u32, and DecodeError for every other body.
C8_RecipeIdsDecoded ==
    \A t \in Tasks :
        (call[t].op = "get_recipe_ids" /\ body[t].t # "none") =>
            IF HasIdsOfU32(body[t])
            THEN /\ result[t].kind = "Ok"
                 /\ Len(result[t].value) = Len(body[t].ids.v.items)
                 /\ \A i \in 1..Len(result[t].value) :
                        /\ result[t].value[i].hi = body[t].ids.v.items[i].hi
                        /\ result[t].value[i].lo = body[t].ids.v.items[i].lo
            ELSE result[t].kind = "DecodeError"

\* get_recipe_ids has returned two different ids.
C8_Witness ==
    \E t \in Tasks :
        /\ call[t].op = "get_recipe_ids" /\ pc[t] = "done"
        /\ result[t].kind = "Ok" /\ Len(result[t].value) = 2
        /\ result[t].value[1] # result[t].value[2]

\* The request that a call with arguments c makes on a client whose default
\* language is d.
RequestOf(c, d) ==
    [method |-> "GET",
     url |-> IF c.op = "get_apk_updates"
             THEN <<BASE, DOWNLOAD_PATH, "/", "versions.txt">>
             ELSE <<BASE, RECIPE_PATH>> \o
                  (CASE c.op = "get_recipe_ids" -> <<"ids">>
                     [] c.op = "get_recipes" -> <<"all">>
                     [] c.op = "get_recipe" -> u32_to_string(c.id)),
     headers |-> IF c.op = "get_apk_updates" THEN <<>>
                 ELSE <<<<ACCEPT_LANGUAGE,
                          IF c.language.some THEN c.language.v ELSE d>>,
                        <<X_RECIPE_TYPE,
                          RecipeType_to_string(IF c.recipe_type.some
                                               THEN c.recipe_type.v ELSE "Default")>>>>]

\* C9: in every step of every interleaving the default language stays what
\* it was at construction, and the request of each call in flight is the
\* one its own arguments and the default language determine, whatever the
\* other tasks do.
C9_CallsIndependent ==
    [][/\ default_language' = default_language
       /\ \A t \in Tasks :
              request'[t].method = "GET" =>
                  request'[t] = RequestOf(call'[t], default_language')]_vars

\* Two calls with different headers are in flight together.
C9_Witness ==
    /\ pc["t1"] \in {"sending", "reading"}
    /\ pc["t2"] \in {"sending", "reading"}
    /\ call["t1"].op \in RecipeOps /\ call["t2"].op \in RecipeOps
    /\ request["t1"].headers # request["t2"].headers

RECURSIVE count_newlines(_)
\* The number of newline characters of s.
count_newlines(s) ==
    IF s = <<>> THEN 0
    ELSE (IF Head(s) = "LF" THEN 1 ELSE 0) + count_newlines(Tail(s))

\* C10: for every body, get_apk_updates returns exactly k+1 URLs, k being
\* the number of newlines of the body without its trailing whitespace; the
\* result is never empty, and an empty or whitespace-only body gives the
\* one URL <base>/<download-path>/.
C10_CountOfUrls ==
    \A t \in Tasks :
        ApkBodyArrived(t) =>
            /\ result[t].kind = "Ok"
            /\ Len(result[t].value) = count_newlines(trim_end(body[t].text)) + 1
            /\ trim_end(body[t].text) = <<>> =>
                   result[t].value = <<<<BASE, DOWNLOAD_PATH, "/">>>>

\* Whenever get_apk_updates does return a list, the list is as C10 says.
ApkCountWhenReturned ==
    \A t \in Tasks :
        (ApkBodyArrived(t) /\ result[t].kind = "Ok") =>
            /\ Len(result[t].value) = count_newlines(trim_end(body[t].text)) + 1
            /\ trim_end(body[t].text) = <<>> =>
                   result[t].value = <<<<BASE, DOWNLOAD_PATH, "/">>>>

\* For a body that lists n >= 1 joinable file names, the list is as C5 says.
ApkListWhenReturned ==
    \A t \in Tasks :
        (/\ ApkBodyArrived(t) /\ IsFileList(body[t].text)
         /\ body[t].text # <<>> /\ result[t].kind = "Ok") =>
            LET names == FileNames(body[t].text)
            IN  /\ Len(result[t].value) = Len(names)
                /\ \A i \in 1..Len(names) :
                       result[t].value[i] = <<BASE, DOWNLOAD_PATH, "/">> \o names[i]

====
